---- MODULE Spec2Model ----
(***************************************************************************)
(* A model of python/actions/action_image_grid.py: create_image_grid and   *)
(* the helpers it calls (_parse_settings, _normalize_items, _natural_key). *)
(*                                                                         *)
(* Python strings are modelled as sequences of one-character strings, so   *)
(* splitting, case folding, stripping, suffix tests and concatenation are  *)
(* computed character by character as the library functions do.  Pixel     *)
(* content (colours, label text rendering, outlines) is not modelled: a     *)
(* tile is its size, the item it was rendered for and whether it is the     *)
(* placeholder.  The file system is the environment: Image.open,            *)
(* os.makedirs and Image.save each succeed or raise, chosen by \E.          *)
(***************************************************************************)
EXTENDS Integers, Sequences, FiniteSets, TLC

VARIABLES paths, data, files, pc, cfg, items, cellWidth, tiles, opened,
          rowHeights, totalWidth, totalHeight, pasted, curX, curY, currentRow,
          madeDirs, written, ret

vars == <<paths, data, files, pc, cfg, items, cellWidth, tiles, opened,
          rowHeights, totalWidth, totalHeight, pasted, curX, curY, currentRow,
          madeDirs, written, ret>>

----------------------------------------------------------------------------
(* Bounds of the model.                                                    *)

MaxItems == 3

----------------------------------------------------------------------------
(* Characters and strings.                                                 *)

\* The printable ASCII characters in code-point order; AsciiChars[i] has code i + 31.
\* Codes 34, 92 and 96 are held by names: no string of the model contains them.
AsciiChars ==
  << " ", "!", "dquote", "#", "$", "%", "&", "'", "(", ")", "*", "+", ",", "-", ".", "/",
     "0", "1", "2", "3", "4", "5", "6", "7", "8", "9", ":", ";", "<", "=", ">", "?",
     "@", "A", "B", "C", "D", "E", "F", "G", "H", "I", "J", "K", "L", "M", "N", "O",
     "P", "Q", "R", "S", "T", "U", "V", "W", "X", "Y", "Z", "[", "backslash", "]", "^", "_",
     "backtick", "a", "b", "c", "d", "e", "f", "g", "h", "i", "j", "k", "l", "m", "n", "o",
     "p", "q", "r", "s", "t", "u", "v", "w", "x", "y", "z", "{", "|", "}", "~" >>

CharCode(c) == 31 + (CHOOSE i \in 1..Len(AsciiChars) : AsciiChars[i] = c)

IsDigit(c) == CharCode(c) \in 48..57

IsUpper(c) == CharCode(c) \in 65..90

IsLower(c) == CharCode(c) \in 97..122

DigitValue(c) == CharCode(c) - 48

DigitChar(d) == AsciiChars[d + 17]

\* str.lower() on one character.
LowerChar(c) == IF IsUpper(c) THEN AsciiChars[CharCode(c) + 1] ELSE c

\* str.lower()
Lower(s) == [i \in 1..Len(s) |-> LowerChar(s[i])]

\* Python's < on two str values: code points, the shorter prefix first.
RECURSIVE StrLess(_, _)
StrLess(a, b) ==
  IF b = <<>> THEN FALSE
  ELSE IF a = <<>> THEN TRUE
  ELSE IF a[1] # b[1] THEN CharCode(a[1]) < CharCode(b[1])
  ELSE StrLess(Tail(a), Tail(b))

\* str.lstrip() / str.rstrip() / str.strip() of blanks.
RECURSIVE LStrip(_)
LStrip(s) == IF s # <<>> /\ s[1] = " " THEN LStrip(Tail(s)) ELSE s

RECURSIVE RStrip(_)
RStrip(s) ==
  IF s # <<>> /\ s[Len(s)] = " " THEN RStrip(SubSeq(s, 1, Len(s) - 1)) ELSE s

Strip(s) == RStrip(LStrip(s))

\* str.strip("_")
RECURSIVE LStripUnderscore(_)
LStripUnderscore(s) ==
  IF s # <<>> /\ s[1] = "_" THEN LStripUnderscore(Tail(s)) ELSE s

RECURSIVE RStripUnderscore(_)
RStripUnderscore(s) ==
  IF s # <<>> /\ s[Len(s)] = "_"
  THEN RStripUnderscore(SubSeq(s, 1, Len(s) - 1)) ELSE s

StripUnderscore(s) == RStripUnderscore(LStripUnderscore(s))

\* int() of a run of decimal digits.
RECURSIVE DigitsValue(_)
DigitsValue(s) ==
  IF s = <<>> THEN 0
  ELSE 10 * DigitsValue(SubSeq(s, 1, Len(s) - 1)) + DigitValue(s[Len(s)])

AllDigits(s) == s # <<>> /\ \A i \in 1..Len(s) : IsDigit(s[i])

\* str() of a non-negative int.
RECURSIVE NatToStr(_)
NatToStr(n) ==
  IF n < 10 THEN <<DigitChar(n)>> ELSE NatToStr(n \div 10) \o <<DigitChar(n % 10)>>

\* str() of an int.
IntToStr(n) == IF n < 0 THEN <<"-">> \o NatToStr(0 - n) ELSE NatToStr(n)

\* The position of the last "/" of p, 0 when there is none (p.rfind("/") + 1).
RECURSIVE LastSlash(_)
LastSlash(p) ==
  IF p = <<>> THEN 0
  ELSE IF p[Len(p)] = "/" THEN Len(p)
  ELSE LastSlash(SubSeq(p, 1, Len(p) - 1))

\* os.path.basename (posixpath)
Basename(p) == SubSeq(p, LastSlash(p) + 1, Len(p))

RECURSIVE RStripSlash(_)
RStripSlash(s) ==
  IF s # <<>> /\ s[Len(s)] = "/" THEN RStripSlash(SubSeq(s, 1, Len(s) - 1)) ELSE s

\* os.path.dirname (posixpath): the head up to the last "/", trailing slashes
\* removed unless the head is slashes only.
Dirname(p) ==
  LET head == SubSeq(p, 1, LastSlash(p))
  IN  IF head # <<>> /\ (\E i \in 1..Len(head) : head[i] # "/")
      THEN RStripSlash(head) ELSE head

\* os.path.join(a, b) (posixpath) for two components.
PathJoin(a, b) ==
  IF b # <<>> /\ b[1] = "/" THEN b
  ELSE IF a = <<>> \/ a[Len(a)] = "/" THEN a \o b
  ELSE a \o <<"/">> \o b

----------------------------------------------------------------------------
(* Values of the loosely typed configuration object `data`.                *)
(* A value is a record [t, v, s]: t = "absent" (the key is not in the      *)
(* dict), "int" (a Python int v), "str" (a Python str s) or "none" (None). *)

Absent == [t |-> "absent", v |-> 0, s |-> <<>>]

NoneV == [t |-> "none", v |-> 0, s |-> <<>>]

IntV(n) == [t |-> "int", v |-> n, s |-> <<>>]

StrV(str) == [t |-> "str", v |-> 0, s |-> str]

\* int(x): [ok |-> FALSE] stands for the ValueError / TypeError that the callers catch.
\* A str is stripped, may carry one sign, and must then be decimal digits.
ToInt(val) ==
  IF val.t = "int" THEN [ok |-> TRUE, v |-> val.v]
  ELSE IF val.t = "str" THEN
    LET body == Strip(val.s)
        neg  == body # <<>> /\ body[1] = "-"
        digs == IF body # <<>> /\ body[1] \in {"-", "+"} THEN Tail(body) ELSE body
    IN  IF AllDigits(digs)
        THEN [ok |-> TRUE, v |-> IF neg THEN 0 - DigitsValue(digs) ELSE DigitsValue(digs)]
        ELSE [ok |-> FALSE, v |-> 0]
  ELSE [ok |-> FALSE, v |-> 0]

\* Python truthiness of a value (x or default).
Truthy(val) ==
  IF val.t = "int" THEN val.v # 0
  ELSE IF val.t = "str" THEN val.s # <<>>
  ELSE FALSE

\* str(x) of a truthy value.
ToStr(val) == IF val.t = "int" THEN IntToStr(val.v) ELSE val.s

----------------------------------------------------------------------------
(* _parse_settings                                                         *)

DefaultColumns == 3

DefaultMaxLongestEdge == 4096

DefaultPadding == 32

\* tile_width / tile_height = None.  Every use of the two is a truth test, and a
\* kept value is >= 1, so None is held as 0.
NoTileSize == 0

DefaultOutputNamePrefix == <<"g","r","i","d","_","o","v","e","r","v","i","e","w">>

\* try: x = int(data[key]) except Exception: pass
IntOrKeep(val, keep) == IF ToInt(val).ok THEN ToInt(val).v ELSE keep

\* lines 52-67 and 109-110: the first key present among xTiles, columns, x.
ParseColumnsMissingElif(d) ==
  LET c == IF d.xTiles.t # "absent" /\ ToInt(d.xTiles).ok THEN ToInt(d.xTiles).v
           ELSE IF d.columns.t # "absent" /\ ToInt(d.columns).ok THEN ToInt(d.columns).v
           ELSE IF d.x.t # "absent" THEN IntOrKeep(d.x, DefaultColumns)
           ELSE DefaultColumns
  IN  IF c < 1 THEN 1 ELSE c

ParseColumns(d) ==
  LET c == IF d.xTiles.t # "absent" THEN IntOrKeep(d.xTiles, DefaultColumns)
           ELSE IF d.columns.t # "absent" THEN IntOrKeep(d.columns, DefaultColumns)
           ELSE IF d.x.t # "absent" THEN IntOrKeep(d.x, DefaultColumns)
           ELSE DefaultColumns
  IN  IF c < 1 THEN 1 ELSE c

\* lines 68-71 and 111-112
ParseMaxLongestEdge(d) ==
  LET m == IF d.maxLongestEdge.t # "absent"
           THEN IntOrKeep(d.maxLongestEdge, DefaultMaxLongestEdge)
           ELSE DefaultMaxLongestEdge
  IN  IF m < 1 THEN 1 ELSE m

\* lines 74-77 and 113-114
ParsePadding(d) ==
  LET p == IF d.padding.t # "absent" THEN IntOrKeep(d.padding, DefaultPadding)
           ELSE DefaultPadding
  IN  IF p < 0 THEN 0 ELSE p

\* lines 83-92 and 117-120: tileWidth and tileHeight, each on its own.
ParseTileSize(val) ==
  LET t == IF val.t # "absent" THEN IntOrKeep(val, NoTileSize) ELSE NoTileSize
  IN  IF t < 1 THEN NoTileSize ELSE t

\* str(data.get(key) or default).strip() when the key is present, else the default.
ParseStr(val, default) ==
  IF val.t = "absent" THEN default
  ELSE IF Truthy(val) THEN Strip(ToStr(val))
  ELSE Strip(default)

ParseSettings(d) ==
  [ columns          |-> ParseColumns(d),
    maxLongestEdge   |-> ParseMaxLongestEdge(d),
    padding          |-> ParsePadding(d),
    tileWidth        |-> ParseTileSize(d.tileWidth),
    tileHeight       |-> ParseTileSize(d.tileHeight),
    outputDir        |-> ParseStr(d.outputDir, <<>>),
    outputNamePrefix |->
      LET p == ParseStr(d.outputNamePrefix, DefaultOutputNamePrefix)
      IN  IF p = <<>> THEN DefaultOutputNamePrefix ELSE p,
    outputPath       |-> Strip(ParseStr(d.outputPath, <<>>)) ]

\* `tile_width and tile_height`: fixed-tile mode.
FixedMode(c) == c.tileWidth # NoTileSize /\ c.tileHeight # NoTileSize

----------------------------------------------------------------------------
(* _normalize_items                                                        *)

\* f"SHOT {idx + 1}", idx1 being idx + 1
DefaultLabel(idx1) == <<"S","H","O","T"," ">> \o IntToStr(idx1)

\* data["items"], when it is a list, wins over paths.  An entry of the list is
\* [path, label]; label = <<>> stands for a missing, None or empty label and for
\* an entry that is a bare string.
NormalizeItems(ps, d) ==
  IF d.items.t = "list"
  THEN [i \in 1..Len(d.items.l) |->
          [ path  |-> Strip(d.items.l[i].path),
            label |-> IF d.items.l[i].label # <<>> THEN d.items.l[i].label
                      ELSE DefaultLabel(i) ]]
  ELSE [i \in 1..Len(ps) |-> [path |-> Strip(ps[i]), label |-> DefaultLabel(i)]]

----------------------------------------------------------------------------
(* _natural_key and sorted()                                               *)

\* re.split(r"(\d+)", name): the runs of name, non-digit runs at the odd places
\* (possibly empty), digit runs at the even places.
RECURSIVE SplitRuns(_, _)
SplitRuns(rest, parts) ==
  IF rest = <<>>
  THEN IF Len(parts) % 2 = 0 THEN Append(parts, <<>>) ELSE parts
  ELSE LET c      == rest[1]
           inDig  == Len(parts) % 2 = 0
           extend == [parts EXCEPT ![Len(parts)] = Append(@, c)]
       IN  IF IsDigit(c) = inDig
           THEN SplitRuns(Tail(rest), extend)
           ELSE SplitRuns(Tail(rest), Append(parts, <<c>>))

KeyInt(n) == [isInt |-> TRUE, n |-> n, s |-> <<>>]

KeyStr(str) == [isInt |-> FALSE, n |-> 0, s |-> str]

NaturalKey(name) ==
  LET parts == SplitRuns(name, << <<>> >>)
  IN  [i \in 1..Len(parts) |->
         IF AllDigits(parts[i]) THEN KeyInt(DigitsValue(parts[i]))
         ELSE KeyStr(Lower(parts[i]))]

\* < on two elements of a key.  Elements at the same place of two keys have the
\* same type (SplitRuns alternates), so int is never compared with str.
ElemLess(x, y) ==
  IF x.isInt /\ y.isInt THEN x.n < y.n
  ELSE IF ~x.isInt /\ ~y.isInt THEN StrLess(x.s, y.s)
  ELSE FALSE

\* Python's < on two lists.
RECURSIVE KeyLess(_, _)
KeyLess(a, b) ==
  IF b = <<>> THEN FALSE
  ELSE IF a = <<>> THEN TRUE
  ELSE IF a[1] # b[1] THEN ElemLess(a[1], b[1])
  ELSE KeyLess(Tail(a), Tail(b))

\* key=lambda p: _natural_key(os.path.basename(p.get("path", "")))
ItemKey(item) == NaturalKey(Basename(item.path))

\* One step of a sort that is not stable: the item goes before equal keys.
RECURSIVE InsertBeforeEqual(_, _)
InsertBeforeEqual(sorted, item) ==
  IF sorted = <<>> THEN <<item>>
  ELSE IF ~KeyLess(ItemKey(sorted[1]), ItemKey(item)) THEN <<item>> \o sorted
  ELSE <<sorted[1]>> \o InsertBeforeEqual(Tail(sorted), item)

\* One step of the stable sort: the item goes before the first element whose key
\* is greater, hence after every element with an equal key.
RECURSIVE InsertStable(_, _)
InsertStable(sorted, item) ==
  IF sorted = <<>> THEN <<item>>
  ELSE IF KeyLess(ItemKey(item), ItemKey(sorted[1])) THEN <<item>> \o sorted
  ELSE <<sorted[1]>> \o InsertStable(Tail(sorted), item)

\* sorted(items, key=...): a stable sort by the key.
RECURSIVE SortedItems(_)
SortedItems(its) ==
  IF its = <<>> THEN <<>>
  ELSE InsertStable(SortedItems(SubSeq(its, 1, Len(its) - 1)), its[Len(its)])

----------------------------------------------------------------------------
(* Layout and rendering                                                    *)

Max(a, b) == IF a > b THEN a ELSE b

\* line 220: cell_width = (total_width - (columns + 1) * padding) // columns
CellWidthOneGapShort(c) == (c.maxLongestEdge - c.columns * c.padding) \div c.columns

CellWidth(c) == (c.maxLongestEdge - (c.columns + 1) * c.padding) \div c.columns

\* line 213: row_count = (len(items) + columns - 1) // columns
RowCountFloor(n, columns) == n \div columns

RowCount(n, columns) == (n + columns - 1) \div columns

\* lines 236-238: new_height = max(1, int(cell_width / (img.width / img.height))).
\* The source sizes of the model have ratios 2 and 1/2, exact in binary floating
\* point, so the float quotient truncates to the integer quotient below.
DynamicHeight(cw, w, h) == Max(1, (cw * h) \div w)

\* lines 244-246: the placeholder of an item that did not load.
Placeholder(c, cw) ==
  [w |-> cw, h |-> IF c.tileHeight # NoTileSize THEN c.tileHeight ELSE cw]

\* lines 230-246: the size of the tile of one item; img is what Image.open gave.
TileSize(c, cw, path, img) ==
  IF path # <<>> /\ img.ok
  THEN IF FixedMode(c) THEN [w |-> c.tileWidth, h |-> c.tileHeight]
       ELSE [w |-> cw, h |-> DynamicHeight(cw, img.w, img.h)]
  ELSE Placeholder(c, cw)

\* lines 280-285: the row heights of dynamic mode, by the loop of the code:
\* row is the list row_tiles, out the list row_heights.
RECURSIVE RowHeightsLoop(_, _, _, _, _)
RowHeightsLoop(ts, columns, idx, row, out) ==
  IF idx > Len(ts) THEN out
  ELSE LET row2 == Append(row, ts[idx].h)
           top  == CHOOSE m \in {row2[k] : k \in 1..Len(row2)} :
                     \A k \in 1..Len(row2) : row2[k] <= m
       IN  IF idx % columns = 0 \/ idx = Len(ts)
           THEN RowHeightsLoop(ts, columns, idx + 1, <<>>, Append(out, top))
           ELSE RowHeightsLoop(ts, columns, idx + 1, row2, out)

RECURSIVE SumSeq(_)
SumSeq(q) == IF q = <<>> THEN 0 ELSE q[1] + SumSeq(Tail(q))

----------------------------------------------------------------------------
(* Output path                                                             *)

PngSuffix == <<".","p","n","g">>

\* s.lower().endswith(".png")
EndsWithPng(s) ==
  Len(s) >= 4 /\ Lower(SubSeq(s, Len(s) - 3, Len(s))) = PngSuffix

\* the class [a-zA-Z0-9._-]
SafeChar(c) == IsLower(c) \/ IsUpper(c) \/ IsDigit(c) \/ c \in {".", "_", "-"}

\* re.sub(r"[^a-zA-Z0-9._-]+", "_", s): every maximal run of other characters
\* becomes one "_"; inRun says that the previous character was replaced.
RECURSIVE SubUnsafe(_, _)
SubUnsafe(s, inRun) ==
  IF s = <<>> THEN <<>>
  ELSE IF SafeChar(s[1]) THEN <<s[1]>> \o SubUnsafe(Tail(s), FALSE)
  ELSE IF inRun THEN SubUnsafe(Tail(s), TRUE)
  ELSE <<"_">> \o SubUnsafe(Tail(s), TRUE)

\* line 313: safe_prefix
SafePrefix(prefix) ==
  LET t == StripUnderscore(SubUnsafe(prefix, FALSE))
  IN  IF t = <<>> THEN DefaultOutputNamePrefix ELSE t

\* line 309: next((it["path"] for it in items if it.get("path")), "")
RECURSIVE FirstPath(_)
FirstPath(its) ==
  IF its = <<>> THEN <<>>
  ELSE IF its[1].path # <<>> THEN its[1].path
  ELSE FirstPath(Tail(its))

\* os.getcwd()
Cwd == <<"/","w">>

\* datetime.now().strftime("%Y%m%d_%H%M%S"): what the clock may give.
Timestamps == { <<"2","0","2","6","0","1","0","2","_","0","3","0","4","0","5">> }

\* lines 304-307 and 309-310: the directory handed to os.makedirs.
OutputFolder(c, its) ==
  IF c.outputPath # <<>>
  THEN LET final == IF EndsWithPng(c.outputPath) THEN c.outputPath
                    ELSE c.outputPath \o PngSuffix
       IN  IF Dirname(final) # <<>> THEN Dirname(final) ELSE <<".">>
  ELSE IF c.outputDir # <<>> THEN c.outputDir
  ELSE IF FirstPath(its) # <<>> THEN Dirname(FirstPath(its))
  ELSE Cwd

\* lines 304-306 and 312-315: final_output_path
FinalOutputPathDirFirst(c, its, ts) ==
  IF c.outputPath # <<>> /\ c.outputDir = <<>>
  THEN IF EndsWithPng(c.outputPath) THEN c.outputPath ELSE c.outputPath \o PngSuffix
  ELSE PathJoin(IF c.outputDir # <<>> THEN c.outputDir ELSE OutputFolder(c, its),
                SafePrefix(c.outputNamePrefix) \o <<"_">> \o ts \o PngSuffix)

FinalOutputPath(c, its, ts) ==
  IF c.outputPath # <<>>
  THEN IF EndsWithPng(c.outputPath) THEN c.outputPath ELSE c.outputPath \o PngSuffix
  ELSE PathJoin(OutputFolder(c, its),
                SafePrefix(c.outputNamePrefix) \o <<"_">> \o ts \o PngSuffix)

----------------------------------------------------------------------------
(* The results of create_image_grid                                        *)

NoResult == [kind |-> "none", msg |-> "", path |-> <<>>]

Return(m) == [kind |-> "return", msg |-> m, path |-> <<>>]

ReturnSaved(p) == [kind |-> "return", msg |-> "Grid image saved to: ", path |-> p]

\* An exception that leaves create_image_grid.
Raise(e) == [kind |-> "raise", msg |-> e, path |-> <<>>]

----------------------------------------------------------------------------
(* create_image_grid as a state machine.                                   *)
(* pc: "start" -> "render" -> "finish" -> "paste" -> "output" -> "done";   *)
(* the early returns go from "start" straight to "done".                   *)

NoCfg == ParseSettings([k \in {"xTiles", "columns", "x", "maxLongestEdge", "padding",
                               "tileWidth", "tileHeight", "outputDir",
                               "outputNamePrefix", "outputPath"} |-> Absent])

\* lines 199-224: settings, items, the empty-list return, the layout of the
\* active mode (with the sort and the too-small return of dynamic mode).
Begin ==
  /\ pc = "start"
  /\ LET c    == ParseSettings(data)
         norm == NormalizeItems(paths, data)
     IN  /\ cfg' = c
         /\ IF norm = <<>>
            THEN /\ ret' = Return("No images provided.")
                 /\ pc' = "done"
                 /\ UNCHANGED <<items, cellWidth, rowHeights, totalWidth, totalHeight>>
            ELSE IF FixedMode(c)
            THEN /\ items' = norm
                 /\ cellWidth' = c.tileWidth
                 /\ rowHeights' = [r \in 1..RowCount(Len(norm), c.columns) |-> c.tileHeight]
                 /\ totalWidth' = c.padding + c.columns * (c.tileWidth + c.padding)
                 /\ totalHeight' = c.padding
                                   + RowCount(Len(norm), c.columns) * (c.tileHeight + c.padding)
                 /\ pc' = "render"
                 /\ ret' = ret
            ELSE /\ items' = SortedItems(norm)
                 /\ cellWidth' = CellWidth(c)
                 /\ totalWidth' = c.maxLongestEdge
                 /\ UNCHANGED <<rowHeights, totalHeight>>
                 /\ IF CellWidth(c) < 1
                    THEN /\ ret' = Return("Grid settings too small for the selected padding/columns.")
                         /\ pc' = "done"
                    ELSE /\ ret' = ret
                         /\ pc' = "render"
  /\ UNCHANGED <<paths, data, files, tiles, opened, pasted, curX, curY, currentRow,
                 madeDirs, written>>

\* lines 226-274: one turn of the render loop.  Image.open is called for a
\* non-empty path only; whatever it raises is caught and leaves tile = None.
RenderItem ==
  /\ pc = "render"
  /\ Len(tiles) < Len(items)
  /\ LET i    == Len(tiles) + 1
         path == items[i].path
         img  == IF path # <<>> THEN files[path] ELSE [ok |-> FALSE, w |-> 0, h |-> 0]
         size == TileSize(cfg, cellWidth, path, img)
     IN  /\ opened' = IF path # <<>> THEN Append(opened, path) ELSE opened
         /\ tiles' = Append(tiles, [ w |-> size.w, h |-> size.h, item |-> items[i],
                                     placeholder |-> ~(path # <<>> /\ img.ok) ])
  /\ UNCHANGED <<paths, data, files, pc, cfg, items, cellWidth, rowHeights, totalWidth,
                 totalHeight, pasted, curX, curY, currentRow, madeDirs, written, ret>>

\* lines 276-291: the end of the render loop, the "no valid images" return, the
\* row heights and canvas height of dynamic mode, the canvas and the cursor.
FinishRender ==
  /\ pc = "render"
  /\ Len(tiles) = Len(items)
  /\ IF tiles = <<>>
     THEN /\ ret' = Return("No valid images to process.")
          /\ pc' = "done"
          /\ UNCHANGED <<rowHeights, totalHeight, curX, curY, currentRow>>
     ELSE /\ IF FixedMode(cfg)
             THEN UNCHANGED <<rowHeights, totalHeight>>
             ELSE LET rh == RowHeightsLoop(tiles, cfg.columns, 1, <<>>, <<>>)
                  IN  /\ rowHeights' = rh
                      /\ totalHeight' = cfg.padding * (Len(rh) + 1) + SumSeq(rh)
          /\ curX' = cfg.padding
          /\ curY' = cfg.padding
          /\ currentRow' = 0
          /\ pc' = "paste"
          /\ ret' = ret
  /\ UNCHANGED <<paths, data, files, cfg, items, cellWidth, tiles, opened, totalWidth,
                 pasted, madeDirs, written>>

\* line 299: y += row_height + padding
NextRowYNoPadding(y, rowHeight, padding) == y + rowHeight

NextRowY(y, rowHeight, padding) == y + rowHeight + padding

\* lines 293-301: one turn of the paste loop.  currentRow is the 0-based index
\* of the code; row_heights[current_row] raises IndexError past the end.
PasteTile ==
  /\ pc = "paste"
  /\ Len(pasted) < Len(tiles)
  /\ LET i    == Len(pasted)
         tile == tiles[i + 1]
     IN  IF currentRow + 1 > Len(rowHeights)
         THEN /\ ret' = Raise("IndexError")
              /\ pc' = "done"
              /\ UNCHANGED <<pasted, curX, curY, currentRow>>
         ELSE LET rowHeight == rowHeights[currentRow + 1]
                  yOffset   == (rowHeight - tile.h) \div 2
              IN  /\ pasted' = Append(pasted, [ x |-> curX, y |-> curY + yOffset,
                                                w |-> tile.w, h |-> tile.h,
                                                row |-> currentRow ])
                  /\ IF (i + 1) % cfg.columns = 0
                     THEN /\ curY' = NextRowY(curY, rowHeight, cfg.padding)
                          /\ curX' = cfg.padding
                          /\ currentRow' = currentRow + 1
                     ELSE /\ curX' = curX + cellWidth + cfg.padding
                          /\ UNCHANGED <<curY, currentRow>>
                  /\ pc' = IF i + 1 = Len(tiles) THEN "output" ELSE "paste"
                  /\ ret' = ret
  /\ UNCHANGED <<paths, data, files, cfg, items, cellWidth, tiles, opened, rowHeights,
                 totalWidth, totalHeight, madeDirs, written>>

\* lines 303-319: the output path, os.makedirs, Image.save and the return.
\* os.makedirs("") raises FileNotFoundError; for any other directory, and for
\* the save, the file system decides (fsOutcome).
SaveOutput ==
  /\ pc = "output"
  /\ \E ts \in Timestamps, fsOutcome \in {"ok", "makedirs raises", "save raises"} :
       LET folder == OutputFolder(cfg, items)
           final  == FinalOutputPath(cfg, items, ts)
       IN  IF folder = <<>>
           THEN /\ ret' = Raise("FileNotFoundError")
                /\ UNCHANGED <<madeDirs, written>>
           ELSE IF fsOutcome = "makedirs raises"
           THEN /\ ret' = Raise("OSError")
                /\ UNCHANGED <<madeDirs, written>>
           ELSE IF fsOutcome = "save raises"
           THEN /\ ret' = Raise("OSError")
                /\ madeDirs' = Append(madeDirs, folder)
                /\ written' = written
           ELSE /\ ret' = ReturnSaved(final)
                /\ madeDirs' = Append(madeDirs, folder)
                /\ written' = Append(written, final)
  /\ pc' = "done"
  /\ UNCHANGED <<paths, data, files, cfg, items, cellWidth, tiles, opened, rowHeights,
                 totalWidth, totalHeight, pasted, curX, curY, currentRow>>

Next == Begin \/ RenderItem \/ FinishRender \/ PasteTile \/ SaveOutput

----------------------------------------------------------------------------
(* Inputs and specifications.                                              *)

SeqsUpTo(S, n) == UNION {[1..k -> S] : k \in 0..n}

\* data = None, or a dict with none of the keys read.
NoData ==
  [ xTiles |-> Absent, columns |-> Absent, x |-> Absent, maxLongestEdge |-> Absent,
    padding |-> Absent, tileWidth |-> Absent, tileHeight |-> Absent,
    outputDir |-> Absent, outputNamePrefix |-> Absent, outputPath |-> Absent,
    items |-> [t |-> "absent", l |-> <<>>] ]

\* What Image.open(path).convert("RGBA") gives: an image of a size, or an exception.
Unreadable == [ok |-> FALSE, w |-> 0, h |-> 0]

Wide == [ok |-> TRUE, w |-> 2, h |-> 1]

Tall == [ok |-> TRUE, w |-> 1, h |-> 2]

InitState ==
  /\ pc = "start"
  /\ cfg = NoCfg
  /\ items = <<>>
  /\ cellWidth = 0
  /\ tiles = <<>>
  /\ opened = <<>>
  /\ rowHeights = <<>>
  /\ totalWidth = 0
  /\ totalHeight = 0
  /\ pasted = <<>>
  /\ curX = 0
  /\ curY = 0
  /\ currentRow = 0
  /\ madeDirs = <<>>
  /\ written = <<>>
  /\ ret = NoResult

\* Spec: layouts of both modes over lists of an empty path, a path in a directory
\* and a bare file name, in every state of the two files.
PathInDir == <<"d","/","a">>

BareName == <<"b">>

LayoutPaths == {<<>>, PathInDir, BareName}

LayoutGeometry == { <<Absent, Absent>>, <<IntV(9), IntV(0)>>, <<IntV(6), IntV(2)>> }

LayoutTileSizes ==
  { <<Absent, Absent>>, <<IntV(3), IntV(2)>>, <<Absent, IntV(2)>>, <<IntV(3), IntV(0)>> }

LayoutData ==
  { [NoData EXCEPT !.columns = c, !.maxLongestEdge = g[1], !.padding = g[2],
                   !.tileWidth = t[1], !.tileHeight = t[2]] :
      c \in {Absent, IntV(2)}, g \in LayoutGeometry, t \in LayoutTileSizes }

Init ==
  /\ paths \in SeqsUpTo(LayoutPaths, MaxItems)
  /\ data \in LayoutData
  /\ files \in [{PathInDir, BareName} -> {Unreadable, Wide, Tall}]
  /\ InitState

Spec == Init /\ [][Next]_vars

----------------------------------------------------------------------------
(* Properties.                                                             *)

\* The number of items given: data["items"] when it is a list, else paths.
InputCount == IF data.items.t = "list" THEN Len(data.items.l) ELSE Len(paths)

\* The layout check passes: fixed-tile mode, or a dynamic cell at least 1 wide.
\* floor(a / c) >= 1 is a >= c for c >= 1.
LayoutPasses ==
  \/ (cfg.tileWidth >= 1 /\ cfg.tileHeight >= 1)
  \/ cfg.maxLongestEdge - (cfg.columns + 1) * cfg.padding >= cfg.columns

\* Item i of the render order did not load.
LoadFailed(i) == items[i].path = <<>> \/ ~files[items[i].path].ok

SavedMessage == "Grid image saved to: "

\* The render loop's part of C1: one tile per item, in render order, and the
\* tile of an item is the placeholder exactly when the item did not load.
RenderLoopIsolation ==
  (pc \in {"paste", "output"} \/ (pc = "done" /\ InputCount > 0 /\ LayoutPasses))
    => /\ Len(tiles) = InputCount
       /\ \A i \in 1..Len(tiles) :
            /\ tiles[i].item = items[i]
            /\ tiles[i].placeholder = LoadFailed(i)

\* os.makedirs and Image.save were not refused by the file system.
FileSystemCooperates == ret # Raise("OSError")

\* C1: for a non-empty item list that passes the layout check, whichever items
\* fail to load, the render loop yields one tile per item in render order, a
\* failed item has the placeholder at its own position, and the operation ends
\* with the success status (stated for runs in which the file system refuses
\* neither the directory nor the file).
C1_FailureIsolationEndsInSuccess ==
  /\ RenderLoopIsolation
  /\ (pc = "done" /\ InputCount > 0 /\ LayoutPasses /\ FileSystemCooperates)
       => (ret.kind = "return" /\ ret.msg = SavedMessage)

\* C2: create_image_grid never ends by raising: it returns the success message
\* with the final path or one of the three failure strings (stated, as C1 is,
\* for runs in which the file system refuses neither the directory nor the file).
C2_AlwaysReturnsStatusString ==
  (pc = "done" /\ FileSystemCooperates) =>
    /\ ret.kind = "return"
    /\ \/ (ret.msg = SavedMessage /\ written = <<ret.path>>)
       \/ ret \in { Return("No images provided."),
                    Return("No valid images to process."),
                    Return("Grid settings too small for the selected padding/columns.") }

\* C3: "No images provided." is returned exactly when the item list is empty,
\* the too-small string exactly when the list is non-empty, fixed-tile mode is
\* off and floor((maxLongestEdge - (columns+1)*padding) / columns) < 1; at either
\* return no image has been opened, no tile rendered, and no directory or file
\* created.
C3_EarlyAbortsWriteNothing ==
  pc = "done" =>
    /\ (ret = Return("No images provided.")) <=> (InputCount = 0)
    /\ (ret = Return("Grid settings too small for the selected padding/columns."))
         <=> /\ InputCount > 0
             /\ ~(cfg.tileWidth >= 1 /\ cfg.tileHeight >= 1)
             /\ cfg.maxLongestEdge - (cfg.columns + 1) * cfg.padding < cfg.columns
    /\ ret \in { Return("No images provided."),
                 Return("Grid settings too small for the selected padding/columns.") }
         => /\ opened = <<>>
            /\ tiles = <<>>
            /\ pasted = <<>>
            /\ madeDirs = <<>>
            /\ written = <<>>

C3_Witness ==
  /\ pc = "done"
  /\ ret = Return("Grid settings too small for the selected padding/columns.")
  /\ Len(paths) = 2
  /\ cfg.tileHeight >= 1
  /\ cfg.padding = 2

\* C4: when the list is non-empty, the layout check passes and every item fails
\* to load, the result is "No valid images to process.".
C4_AllFailedReturnsNoValidImages ==
  (pc = "done" /\ InputCount > 0 /\ LayoutPasses /\ Len(tiles) = Len(items)
     /\ \A i \in 1..Len(items) : LoadFailed(i))
    => ret = Return("No valid images to process.")

\* r = ceil(n / c) for c >= 1: (r - 1) * c < n <= r * c.
IsCeilDiv(r, n, c) == (r - 1) * c < n /\ n <= r * c

\* q = floor(a / c) for c >= 1: q * c <= a < (q + 1) * c.
IsFloorDiv(q, a, c) == q * c <= a /\ a < (q + 1) * c

\* The tiles of row r (1-based) when the tiles are dealt to rows by position.
RowMembers(r) ==
  {i \in 1..Len(tiles) : (r - 1) * cfg.columns < i /\ i <= r * cfg.columns}

CanvasMade ==
  pc \in {"paste", "output"} \/ (pc = "done" /\ tiles # <<>> /\ Len(pasted) = Len(tiles))

\* C5: the canvas is the reference layout of the active mode.  Fixed-tile mode:
\* ceil(n / columns) rows, each tileHeight high, width padding +
\* columns*(tileWidth+padding), height padding + rows*(tileHeight+padding).
\* Dynamic mode: width maxLongestEdge, cellWidth the floor quotient, rows dealt
\* by position, each as high as its highest tile, height padding*(rows+1) + the
\* sum of the row heights.
C5_CanvasIsReferenceLayout ==
  CanvasMade =>
    LET n    == Len(tiles)
        rows == Len(rowHeights)
    IN  /\ n = InputCount
        /\ IsCeilDiv(rows, n, cfg.columns)
        /\ IF cfg.tileWidth >= 1 /\ cfg.tileHeight >= 1
           THEN /\ \A r \in 1..rows : rowHeights[r] = cfg.tileHeight
                /\ cellWidth = cfg.tileWidth
                /\ totalWidth = cfg.padding + cfg.columns * (cfg.tileWidth + cfg.padding)
                /\ totalHeight = cfg.padding + rows * (cfg.tileHeight + cfg.padding)
           ELSE /\ totalWidth = cfg.maxLongestEdge
                /\ IsFloorDiv(cellWidth,
                              cfg.maxLongestEdge - (cfg.columns + 1) * cfg.padding,
                              cfg.columns)
                /\ \A r \in 1..rows :
                     /\ \E i \in RowMembers(r) : rowHeights[r] = tiles[i].h
                     /\ \A i \in RowMembers(r) : rowHeights[r] >= tiles[i].h
                /\ totalHeight = cfg.padding * (rows + 1) + SumSeq(rowHeights)

C5_Witness ==
  /\ pc = "output"
  /\ cfg.tileWidth = NoTileSize
  /\ cfg.columns = 2
  /\ Len(tiles) = 3
  /\ tiles[1].h > tiles[2].h
  /\ tiles[3].placeholder
  /\ cfg.padding > 0

\* C7: the placeholder of a failed item is cellWidth x tileHeight in fixed-tile
\* mode and cellWidth x cellWidth in every other case.
C7_PlaceholderSizeByMode ==
  \A i \in 1..Len(tiles) :
    tiles[i].placeholder =>
      /\ tiles[i].w = cellWidth
      /\ tiles[i].h = IF cfg.tileWidth >= 1 /\ cfg.tileHeight >= 1
                      THEN cfg.tileHeight ELSE cellWidth

\* The rectangles of pasted tiles a and b share no pixel.
Disjoint(a, b) ==
  \/ a.x + a.w <= b.x
  \/ b.x + b.w <= a.x
  \/ a.y + a.h <= b.y
  \/ b.y + b.h <= a.y

\* C10: tile i (0-based) is pasted with row index floor(i / columns), a valid
\* index of the row heights, at x = padding + (i mod columns)*(cellWidth+padding)
\* and y = padding + the sum over earlier rows of (rowHeight+padding) +
\* floor((rowHeight - tileHeight) / 2); every pasted rectangle lies inside the
\* canvas and no two overlap.
C10_PlacementInsideCanvasNoOverlap ==
  /\ ret # Raise("IndexError")
  /\ \A k \in 1..Len(pasted) :
       LET i   == k - 1
           t   == pasted[k]
           row == i \div cfg.columns
       IN  /\ t.row = row
           /\ row + 1 \in 1..Len(rowHeights)
           /\ t.w = tiles[k].w /\ t.h = tiles[k].h
           /\ t.x = cfg.padding + (i % cfg.columns) * (cellWidth + cfg.padding)
           /\ t.y = cfg.padding
                    + SumSeq([r \in 1..row |-> rowHeights[r] + cfg.padding])
                    + ((rowHeights[row + 1] - t.h) \div 2)
           /\ t.x >= 0 /\ t.y >= 0
           /\ t.x + t.w <= totalWidth
           /\ t.y + t.h <= totalHeight
  /\ \A k1, k2 \in 1..Len(pasted) : k1 # k2 => Disjoint(pasted[k1], pasted[k2])

C10_Witness ==
  /\ pc = "output"
  /\ Len(pasted) = 3
  /\ cfg.columns = 2
  /\ cfg.tileWidth = NoTileSize
  /\ pasted[2].y > pasted[1].y
  /\ tiles[3].placeholder
  /\ pasted[3].y > pasted[1].y + pasted[1].h

----------------------------------------------------------------------------
(* SpecSettings: every combination of the three column keys.               *)

BadNumber == StrV(<<"q">>)

SettingsData ==
  { [NoData EXCEPT !.xTiles = a, !.columns = b, !.x = c,
                   !.maxLongestEdge = IntV(9), !.padding = IntV(0)] :
      a \in {Absent, IntV(2), BadNumber, NoneV},
      b \in {Absent, IntV(0), StrV(<<" ","4">>), BadNumber},
      c \in {Absent, IntV(-1), IntV(5)} }

InitSettings ==
  /\ paths \in SeqsUpTo({PathInDir}, MaxItems)
  /\ data \in SettingsData
  /\ files \in [{PathInDir} -> {Wide}]
  /\ InitState

SpecSettings == InitSettings /\ [][Next]_vars

\* The value of the first key present among xTiles, columns, x.
FirstColumnKey ==
  IF data.xTiles.t # "absent" THEN data.xTiles
  ELSE IF data.columns.t # "absent" THEN data.columns
  ELSE data.x

\* C9: the column count comes from the first key present among xTiles, columns,
\* x only; when that key's value cannot be coerced to an integer the default 3
\* is kept and later keys are not consulted; the result is at least 1.
C9_FirstPresentColumnKeyWins ==
  pc # "start" =>
    /\ cfg.columns >= 1
    /\ cfg.columns =
         IF FirstColumnKey.t \in {"absent", "none"} \/ FirstColumnKey = BadNumber THEN 3
         ELSE IF ToInt(FirstColumnKey).v < 1 THEN 1
         ELSE ToInt(FirstColumnKey).v

C9_Witness ==
  /\ pc = "done"
  /\ data.xTiles = BadNumber
  /\ data.columns = StrV(<<" ","4">>)
  /\ data.x = IntV(5)
  /\ cfg.columns = 3
  /\ Len(pasted) = 3

----------------------------------------------------------------------------
(* SpecSort: lists over names whose natural order differs from their input *)
(* order and from their code-point order, as paths and as data["items"].   *)

NameA2 == <<"x","/","a","2">>

NameA10 == <<"y","/","a","1","0">>

NameB1 == <<"B","1">>

NameA02 == <<"z","/","a","0","2">>

SortPaths == {<<>>, NameA2, NameA10, NameB1, NameA02}

DynamicData == [NoData EXCEPT !.maxLongestEdge = IntV(9), !.padding = IntV(0)]

FixedData == [DynamicData EXCEPT !.tileWidth = IntV(3), !.tileHeight = IntV(2)]

CustomLabel == <<"L">>

SortEntries == { [path |-> NameA2, label |-> CustomLabel], [path |-> NameA02, label |-> <<>>],
                 [path |-> NameB1, label |-> <<>>] }

SortInputs ==
  { <<ps, d>> : ps \in SeqsUpTo(SortPaths, MaxItems), d \in {DynamicData, FixedData} }
  \cup
  { <<ps, [d EXCEPT !.items = [t |-> "list", l |-> l]]>> :
      ps \in {<<>>, <<NameA10>>}, d \in {DynamicData, FixedData},
      l \in SeqsUpTo(SortEntries, MaxItems) }

InitSort ==
  /\ \E input \in SortInputs : paths = input[1] /\ data = input[2]
  /\ files \in [SortPaths \ {<<>>} -> {Wide}]
  /\ InitState

SpecSort == InitSort /\ [][Next]_vars

\* The natural order of the base names of SortPaths, by the rule of the claim:
\* "" < a2 = a02 (the digit runs 2 and 02 are the same integer) < a10 < B1 (b
\* after a, whatever the case).
NaturalRank(path) ==
  IF path = <<>> THEN 0
  ELSE IF path \in {NameA2, NameA02} THEN 1
  ELSE IF path = NameA10 THEN 2
  ELSE 3

\* Input entry k as normalization leaves it: its path, and its own label or
\* "SHOT k".
InputItem(k) ==
  IF data.items.t = "list"
  THEN [ path  |-> data.items.l[k].path,
         label |-> IF data.items.l[k].label # <<>> THEN data.items.l[k].label
                   ELSE <<"S","H","O","T"," ">> \o <<DigitChar(k)>> ]
  ELSE [ path |-> paths[k], label |-> <<"S","H","O","T"," ">> \o <<DigitChar(k)>> ]

Rearrangements(n) == {f \in [1..n -> 1..n] : \A i, j \in 1..n : i # j => f[i] # f[j]}

\* C6: in fixed-tile mode the render order is the input order; in dynamic mode
\* it is the stable sort of the input by the natural key of the base name
\* (equal keys keep their input order); either way it is a permutation of the
\* input and every item keeps the label of its one-based input position.
C6_RenderOrderByMode ==
  (pc # "start" /\ InputCount > 0) =>
    /\ Len(items) = InputCount
    /\ IF cfg.tileWidth >= 1 /\ cfg.tileHeight >= 1
       THEN \A i \in 1..Len(items) : items[i] = InputItem(i)
       ELSE \E f \in Rearrangements(Len(items)) :
              /\ \A i \in 1..Len(items) : items[i] = InputItem(f[i])
              /\ \A i, j \in 1..Len(items) :
                   i < j =>
                     \/ NaturalRank(items[i].path) < NaturalRank(items[j].path)
                     \/ /\ NaturalRank(items[i].path) = NaturalRank(items[j].path)
                        /\ f[i] < f[j]

C6_Witness ==
  /\ pc = "output"
  /\ cfg.tileWidth = NoTileSize
  /\ paths = <<NameB1, NameA02, NameA2>>
  /\ items = << [path |-> NameA02, label |-> <<"S","H","O","T"," ","2">>],
                [path |-> NameA2, label |-> <<"S","H","O","T"," ","3">>],
                [path |-> NameB1, label |-> <<"S","H","O","T"," ","1">>] >>

----------------------------------------------------------------------------
(* SpecOutput: every combination of outputPath, outputDir, outputNamePrefix. *)

NameE1 == <<"e","/","a","1">>

NameD2 == <<"d","/","a","2">>

OutputPaths == {<<>>, NameE1, NameD2}

OutputData ==
  { [d EXCEPT !.outputPath = op, !.outputDir = od, !.outputNamePrefix = pre] :
      d \in {DynamicData, FixedData},
      op \in {Absent, StrV(<<"o","/","x">>), StrV(<<"p",".","P","N","G">>)},
      od \in {Absent, StrV(<<"o","u","t">>), StrV(<<" ">>)},
      pre \in {Absent, StrV(<<"m"," ","!","g">>), StrV(<<"_","_">>)} }

InitOutput ==
  /\ paths \in SeqsUpTo(OutputPaths, MaxItems)
  /\ data \in OutputData
  /\ files \in { [p \in OutputPaths \ {<<>>} |-> img] : img \in {Unreadable, Tall} }
  /\ InitState

SpecOutput == InitOutput /\ [][Next]_vars

\* sanitize(outputNamePrefix) for the prefixes of OutputData, by the rule of the
\* spec: runs outside [A-Za-z0-9._-] become "_", underscores at the ends are
\* stripped, and an empty result is "grid_overview".
SanitizedPrefix ==
  IF cfg.outputNamePrefix = <<"m"," ","!","g">> THEN <<"m","_","g">>
  ELSE <<"g","r","i","d","_","o","v","e","r","v","i","e","w">>

\* The items, in render order, that have a path.
WithPath == {i \in 1..Len(items) : items[i].path # <<>>}

\* The base directory when outputPath is empty.
BaseDirectory ==
  IF cfg.outputDir # <<>> THEN cfg.outputDir
  ELSE IF WithPath # {}
  THEN Dirname(items[CHOOSE i \in WithPath : \A j \in WithPath : i <= j].path)
  ELSE Cwd

\* C8: on a successful run exactly one file is written, after every tile has
\* been pasted.  With a non-empty outputPath the file is that path, ".png"
\* appended unless it ends in .png in any case, and neither outputDir nor
\* outputNamePrefix nor the item paths matter; otherwise the file is
\* sanitize(outputNamePrefix) + "_" + timestamp + ".png" in outputDir if set,
\* else in the directory of the first item (of the item list as rendered) with
\* a non-empty path, else in the current directory.
C8_OutputPathPrecedence ==
  /\ pc # "done" => written = <<>>
  /\ (pc = "done" /\ ret.kind = "return" /\ ret.msg = SavedMessage) =>
       /\ written = <<ret.path>>
       /\ Len(pasted) = Len(items) /\ Len(tiles) = Len(items) /\ items # <<>>
       /\ IF cfg.outputPath # <<>>
          THEN LET n    == Len(cfg.outputPath)
                   tail == IF n >= 4 THEN SubSeq(cfg.outputPath, n - 3, n) ELSE <<>>
               IN  ret.path = IF tail \in {<<".","p","n","g">>, <<".","P","N","G">>}
                              THEN cfg.outputPath
                              ELSE cfg.outputPath \o <<".","p","n","g">>
          ELSE \E ts \in Timestamps :
                 ret.path = BaseDirectory \o <<"/">> \o SanitizedPrefix \o <<"_">> \o ts
                            \o <<".","p","n","g">>

C8_Witness ==
  /\ pc = "done"
  /\ ret.msg = SavedMessage
  /\ cfg.outputPath = <<>>
  /\ cfg.outputDir = <<>>
  /\ data.outputDir = StrV(<<" ">>)
  /\ cfg.tileWidth = NoTileSize
  /\ paths = <<<<>>, NameD2, NameE1>>
  /\ cfg.outputNamePrefix = <<"m"," ","!","g">>
  /\ madeDirs = << <<"e">> >>

====
